---- MODULE Spec2Model ----
(***************************************************************************)
(* anet-mcp-server: a JSON-RPC style tool server.                          *)
(*                                                                         *)
(*   src/src/server.rs          Server, ServerBuilder, the dispatcher      *)
(*   src/src/tools.rs           Tool, Tools (the registry)                 *)
(*   src/src/types.rs           the wire types                             *)
(*   src/src/transport/nats.rs  the publish/subscribe run loop             *)
(*   src/src/main.rs            the line-stream (stdio) program            *)
(*                                                                         *)
(* Three specifications share the variables:                               *)
(*   Spec       handle_request applied to a built server                   *)
(*   SpecBuild  the ServerBuilder chain, build(), then registry requests   *)
(*   SpecRun    the two run loops of the programs main() builds            *)
(***************************************************************************)
EXTENDS Integers, Sequences, FiniteSets, TLC

VARIABLES
    transport,       \* ServerBuilder.transport / Server.transport
    tools,           \* Tools.tools: the HashMap, as its entries in iteration order
    server_name,     \* server_name
    server_version,  \* server_version
    capabilities,    \* capabilities
    build_result,    \* None while a ServerBuilder; then what build() returned
    registered,      \* the tools handed to add_tool so far, oldest first
    request,         \* the request being served (Option<JsonRpcRequest>)
    response,        \* the response handle_request returned for it (Option)
    invoked,         \* the Tool::call invocations made while serving `request`
    pc,              \* position of run(); "idle" while run() has not been called
    reply,           \* message.reply of the NATS message being served
    serialized,      \* the encoded response about to be sent
    accepted,        \* ids of the requests the loop has decoded, in arrival order
    active,          \* number of requests accepted and not yet completely served
    stdout,          \* chunks written to standard output, in order
    flushed,         \* how many chunks of stdout have been flushed
    published,       \* messages published on NATS, in order
    incoming,        \* what the transport handed to the loop's current turn (Option)
    run_result       \* what run() returned (Option<Result<()>>)

server_vars == <<transport, tools, server_name, server_version, capabilities>>
serve_vars == <<request, response, invoked>>
loop_vars == <<pc, reply, serialized, accepted, active, stdout, flushed, published,
               incoming, run_result>>
vars == <<server_vars, build_result, registered, serve_vars, loop_vars>>

(***************************************************************************)
(* Option<T>, Result<T>, anyhow::Error                                     *)
(***************************************************************************)
None == [t |-> "none"]
Some(v) == [t |-> "some", v |-> v]
IsSome(o) == o.t = "some"
IsNone(o) == o.t = "none"

Ok(v) == [t |-> "ok", ok |-> v]
Err(e) == [t |-> "err", err |-> e]
IsOk(r) == r.t = "ok"
IsErr(r) == r.t = "err"

\* An anyhow::Error is its chain of messages, outermost first.
Anyhow(msg) == <<msg>>
\* Error::context(msg) / Context::context(msg): msg becomes the outermost message.
Context(e, msg) == <<msg>> \o e
\* Display of an anyhow::Error prints the outermost message only.
to_string(e) == e[1]

(***************************************************************************)
(* serde_json::Value. An object is the set of its <<key, value>> members.  *)
(***************************************************************************)
JNull == [t |-> "null"]
JStr(s) == [t |-> "str", s |-> s]
JNum(n) == [t |-> "num", n |-> n]
JArr(a) == [t |-> "arr", a |-> a]
JObj(o) == [t |-> "obj", o |-> o]

HasKey(v, k) == v.t = "obj" /\ \E p \in v.o : p[1] = k
\* Value::get(key): a member of an object; None for a missing key or a non-object.
Get(v, k) ==
    IF HasKey(v, k) THEN Some((CHOOSE p \in v.o : p[1] = k)[2]) ELSE None
\* Value::as_str
AsStr(v) == IF v.t = "str" THEN Some(v.s) ELSE None
\* Value::as_object
AsObject(v) == IF v.t = "obj" THEN Some(v.o) ELSE None
\* params.get(key).and_then(|v| v.as_str())
GetStr(v, k) == IF IsSome(Get(v, k)) THEN AsStr(Get(v, k).v) ELSE None
\* Serialize for Option<T>: null or the value
OptJson(o) == IF IsSome(o) THEN o.v ELSE JNull
\* Serialize for Option<String>
OptStrJson(o) == IF IsSome(o) THEN JStr(o.v) ELSE JNull
\* #[serde(skip_serializing_if = "Option::is_none")]
SkipIfNone(k, o) == IF IsSome(o) THEN {<<k, o.v>>} ELSE {}

RECURSIVE DebugSeq(_, _)
\* {:?} of a serde_json::Value
RECURSIVE DebugFmt(_)
DebugFmt(v) ==
    CASE v.t = "null" -> "Null"
      [] v.t = "str" -> "String(\"" \o v.s \o "\")"
      [] v.t = "num" -> "Number(" \o ToString(v.n) \o ")"
      [] v.t = "arr" -> "Array [" \o DebugSeq(v.a, 1) \o "]"
      [] v.t = "obj" ->
            LET Members[s \in SUBSET v.o] ==
                    IF s = {} THEN ""
                    ELSE LET p == CHOOSE q \in s : TRUE
                         IN "\"" \o p[1] \o "\": " \o DebugFmt(p[2])
                            \o (IF s = {p} THEN "" ELSE ", " \o Members[s \ {p}])
            IN "Object {" \o Members[v.o] \o "}"
DebugSeq(a, i) ==
    IF i > Len(a) THEN ""
    ELSE DebugFmt(a[i]) \o (IF i = Len(a) THEN "" ELSE ", " \o DebugSeq(a, i + 1))

(***************************************************************************)
(* types.rs: Content, ToolDefinition, ServerCapabilities, JsonRpcError,    *)
(* JsonRpcResponse and their derived Serialize                             *)
(***************************************************************************)
\* Content::Text { text }
Text(s) == [type |-> "text", text |-> s]
\* #[serde(tag = "type")] enum Content, variant renamed "text"
ContentJson(c) == JObj({<<"type", JStr(c.type)>>, <<"text", JStr(c.text)>>})
\* Serialize for Vec<Content>
ContentsJson(cs) == JArr([i \in 1..Len(cs) |-> ContentJson(cs[i])])

\* Serialize for ToolDefinition (input_schema renamed "inputSchema")
ToolDefinitionJson(d) ==
    JObj({<<"name", JStr(d.name)>>, <<"description", JStr(d.description)>>,
          <<"inputSchema", d.input_schema>>})

\* Serialize for ServerCapabilities
CapabilitiesJson(c) ==
    JObj({<<"tools", OptJson(c.tools)>>, <<"prompts", OptJson(c.prompts)>>,
          <<"resources", OptJson(c.resources)>>}
         \cup SkipIfNone("notification_options", c.notification_options)
         \cup SkipIfNone("experimental_capabilities", c.experimental_capabilities))

\* Serialize for JsonRpcError (data skipped when None)
JsonRpcErrorJson(e) ==
    JObj({<<"code", JNum(e.code)>>, <<"message", JStr(e.message)>>}
         \cup SkipIfNone("data", e.data))

\* Serialize for JsonRpcResponse: no field of it is skipped, so a None is written
\* as null.
JsonRpcResponseJson(r) ==
    JObj({<<"jsonrpc", JStr(r.jsonrpc)>>,
          <<"id", OptStrJson(r.id)>>,
          <<"result", OptJson(r.result)>>,
          <<"error", IF IsSome(r.error) THEN JsonRpcErrorJson(r.error.v) ELSE JNull>>})

(***************************************************************************)
(* tools.rs: the Tool trait and the tools of the model                     *)
(***************************************************************************)
\* ExampleTool::input_schema
ExampleSchema ==
    JObj({<<"type", JStr("object")>>,
          <<"properties", JObj({<<"param", JObj({<<"type", JStr("string")>>})>>})>>,
          <<"required", JArr(<<JStr("param")>>)>>})

\* ExampleTool::call
ExampleTool_call(input) ==
    LET param == IF IsSome(input) THEN GetStr(input.v, "param") ELSE None
    IN  IF IsNone(param) THEN Err(Anyhow("Missing 'param' in input"))
        ELSE Ok(<<Text("Tool executed with param: " \o param.v)>>)

\* Tool::call of a registered tool. A tool is any implementation of the trait:
\* besides ExampleTool the model registers one that returns two blocks and one
\* that always fails.
Tool_call(tool, input) ==
    CASE tool.kind = "example" -> ExampleTool_call(input)
      [] tool.kind = "pair" -> Ok(<<Text("first"), Text("second")>>)
      [] tool.kind = "failing" -> Err(Anyhow("backend unavailable"))

\* ExampleTool, as examples/basic_server.rs and main.rs define it
ExampleTool ==
    [name |-> "example_tool", description |-> "An example tool",
     input_schema |-> ExampleSchema, kind |-> "example"]

\* The tools add_tool is called with: two names, two implementations of each.
ToolUniverse ==
    { ExampleTool,
      [name |-> "example_tool", description |-> "Example tool, revised",
       input_schema |-> JObj({}), kind |-> "failing"],
      [name |-> "echo", description |-> "Echo",
       input_schema |-> JObj({}), kind |-> "pair"],
      [name |-> "echo", description |-> "Echo, revised",
       input_schema |-> ExampleSchema, kind |-> "example"] }

(***************************************************************************)
(* tools.rs: Tools, a HashMap<String, Box<dyn Tool>>. The map is the       *)
(* sequence of its <<key, tool>> entries in iteration order; keys are      *)
(* distinct.                                                               *)
(***************************************************************************)
Keys(map) == {map[i][1] : i \in 1..Len(map)}
IndexOf(map, k) == CHOOSE i \in 1..Len(map) : map[i][1] = k
\* HashMap::get
HashMap_get(map, k) ==
    IF k \in Keys(map) THEN Some(map[IndexOf(map, k)][2]) ELSE None

\* All orders of the entries of a map
Orders(entries) ==
    {s \in [1..Cardinality(entries) -> entries] :
        \A i, j \in 1..Cardinality(entries) : i # j => s[i] # s[j]}

\* HashMap::insert: the maps that may result. The value of a present key is
\* replaced in its slot; a new key lands anywhere, and growing the table may
\* move every entry, so any order of the entries can follow.
HashMap_insert(map, k, v) ==
    IF k \in Keys(map)
    THEN {[map EXCEPT ![IndexOf(map, k)] = <<k, v>>]}
    ELSE Orders({map[i] : i \in 1..Len(map)} \cup {<<k, v>>})

\* Tools::new
Tools_new == <<>>

\* Mutant of Tools_add: a present name keeps its first tool (entry().or_insert).
Tools_add_keep_first(map, tool) ==
    IF tool.name \in Keys(map) THEN {map} ELSE HashMap_insert(map, tool.name, tool)

\* Tools::add: self.tools.insert(tool.name(), Box::new(tool))
Tools_add(map, tool) == HashMap_insert(map, tool.name, tool)

\* Mutant of Tools_list: the first entry the map yields is left out of the list.
Tools_list_skips_first(map) ==
    [i \in 1..(Len(map) - 1) |->
        [name |-> map[i + 1][2].name, description |-> map[i + 1][2].description,
         input_schema |-> map[i + 1][2].input_schema]]

\* Tools::list
Tools_list(map) ==
    [i \in 1..Len(map) |->
        [name |-> map[i][2].name, description |-> map[i][2].description,
         input_schema |-> map[i][2].input_schema]]

\* What a handler returns, with the tool invocations it made on the way
Outcome(res, calls) == [res |-> res, invoked |-> calls]

\* Mutant of Tools_call: a name that is not registered falls back to the first
\* tool the map yields.
Tools_call_falls_back(map, name, args) ==
    IF map = <<>>
    THEN Outcome(Err(Anyhow("Tool " \o name \o " not found")), <<>>)
    ELSE LET tool == IF IsNone(HashMap_get(map, name)) THEN map[1][2]
                     ELSE HashMap_get(map, name).v
         IN  Outcome(Tool_call(tool, args), <<[tool |-> tool, input |-> args]>>)

\* Tools::call
Tools_call(map, name, args) ==
    IF IsNone(HashMap_get(map, name))
    THEN Outcome(Err(Anyhow("Tool " \o name \o " not found")), <<>>)
    ELSE LET tool == HashMap_get(map, name).v
         IN  Outcome(Tool_call(tool, args), <<[tool |-> tool, input |-> args]>>)

(***************************************************************************)
(* server.rs: the dispatcher. The handlers read the server's fields.       *)
(***************************************************************************)
\* code: -32601 of every error response
ErrorCode == -32601

\* Mutant of handle_initialize: a params value without a clientInfo member is
\* refused.
handle_initialize_requires_client_info(params) ==
    IF IsNone(Get(params, "clientInfo"))
    THEN Outcome(Err(Anyhow("Missing 'clientInfo' in params")), <<>>)
    ELSE Outcome(Ok(JObj({<<"server_name", JStr(server_name)>>,
                          <<"server_version", JStr(server_version)>>,
                          <<"capabilities", CapabilitiesJson(capabilities)>>})), <<>>)

\* Server::handle_initialize
handle_initialize(params) ==
    Outcome(Ok(JObj({<<"server_name", JStr(server_name)>>,
                     <<"server_version", JStr(server_version)>>,
                     <<"capabilities", CapabilitiesJson(capabilities)>>})), <<>>)

\* Server::handle_list_tools
handle_list_tools(params) ==
    LET list == Tools_list(tools)
    IN  Outcome(Ok(JObj({<<"tools",
                          JArr([i \in 1..Len(list) |-> ToolDefinitionJson(list[i])])>>})),
                <<>>)

\* Mutant of handle_call_tool: the whole params value is passed to the tool
\* instead of its `arguments` member.
handle_call_tool_passes_params(params) ==
    LET name == GetStr(params, "name")
    IN  IF IsNone(name) THEN Outcome(Err(Anyhow("Missing 'name' in params")), <<>>)
        ELSE LET called == Tools_call(tools, name.v, Some(params))
             IN  IF IsErr(called.res) THEN called
                 ELSE Outcome(Ok(JObj({<<"content", ContentsJson(called.res.ok)>>})),
                              called.invoked)

\* Server::handle_call_tool
handle_call_tool(params) ==
    LET name == GetStr(params, "name")
        arguments == Get(params, "arguments")
    IN  IF IsNone(name) THEN Outcome(Err(Anyhow("Missing 'name' in params")), <<>>)
        ELSE LET called == Tools_call(tools, name.v, arguments)
             IN  IF IsErr(called.res) THEN called
                 ELSE Outcome(Ok(JObj({<<"content", ContentsJson(called.res.ok)>>})),
                              called.invoked)

\* Server::handle_list_resources
handle_list_resources(params) ==
    Outcome(Ok(JObj({<<"resources", JArr(<<>>)>>, <<"next_cursor", JNull>>,
                     <<"meta", JNull>>})), <<>>)

\* Server::handle_read_resource
handle_read_resource(params) ==
    LET uri == GetStr(params, "uri")
    IN  IF IsNone(uri) THEN Outcome(Err(Anyhow("Missing 'uri' in params")), <<>>)
        ELSE Outcome(Ok(JStr("Resource content for " \o uri.v)), <<>>)

\* Server::handle_list_prompts
handle_list_prompts(params) ==
    Outcome(Ok(JObj({<<"prompts", JArr(<<>>)>>})), <<>>)

\* Server::handle_get_prompt
handle_get_prompt(params) ==
    LET name == GetStr(params, "name")
        arguments == Get(params, "arguments")
    IN  IF IsNone(name) THEN Outcome(Err(Anyhow("Missing 'name' in params")), <<>>)
        ELSE IF IsNone(arguments)
        THEN Outcome(Err(Anyhow("Missing 'arguments' in params")), <<>>)
        ELSE Outcome(Ok(JObj({
                <<"description", JStr("Prompt '" \o name.v \o "'")>>,
                <<"messages", JArr(<<JObj({
                    <<"role", JStr("user")>>,
                    <<"content", JObj({
                        <<"type", JStr("text")>>,
                        <<"text", JStr("Prompt with args: " \o DebugFmt(arguments.v))>>
                    })>>
                })>>)>>
             })), <<>>)

\* Mutant of Dispatch: callTool is matched without regard to case.
Dispatch_ignores_case(method, params) ==
    CASE method = "initialize" -> handle_initialize(params)
      [] method = "listTools" -> handle_list_tools(params)
      [] method \in {"callTool", "calltool"} -> handle_call_tool(params)
      [] method = "listResources" -> handle_list_resources(params)
      [] method = "readResource" -> handle_read_resource(params)
      [] method = "listPrompts" -> handle_list_prompts(params)
      [] method = "getPrompt" -> handle_get_prompt(params)
      [] OTHER -> Outcome(Err(Anyhow("Method not found: " \o method)), <<>>)

\* The match on the method string in handle_request
Dispatch(method, params) ==
    CASE method = "initialize" -> handle_initialize(params)
      [] method = "listTools" -> handle_list_tools(params)
      [] method = "callTool" -> handle_call_tool(params)
      [] method = "listResources" -> handle_list_resources(params)
      [] method = "readResource" -> handle_read_resource(params)
      [] method = "listPrompts" -> handle_list_prompts(params)
      [] method = "getPrompt" -> handle_get_prompt(params)
      [] OTHER -> Outcome(Err(Anyhow("Method not found: " \o method)), <<>>)

\* Mutant of handle_request: the error arm builds its response without the id.
handle_request_error_drops_id(req) ==
    LET result == Dispatch(req.method,
                           IF IsSome(req.params) THEN req.params.v ELSE JObj({}))
    IN  [response |->
            IF IsOk(result.res)
            THEN [jsonrpc |-> "2.0", id |-> req.id,
                  result |-> Some(result.res.ok), error |-> None]
            ELSE [jsonrpc |-> "2.0", id |-> None,
                  result |-> None,
                  error |-> Some([code |-> ErrorCode,
                                  message |-> to_string(result.res.err),
                                  data |-> None])],
         invoked |-> result.invoked]

\* Mutant of handle_request: a request without params is refused instead of
\* being served with the empty object.
handle_request_requires_params(req) ==
    LET id == req.id
        method == req.method
        result == IF IsSome(req.params) THEN Dispatch(method, req.params.v)
                  ELSE Outcome(Err(Anyhow("Missing params")), <<>>)
    IN  [response |->
            IF IsOk(result.res)
            THEN [jsonrpc |-> "2.0", id |-> id,
                  result |-> Some(result.res.ok), error |-> None]
            ELSE [jsonrpc |-> "2.0", id |-> id,
                  result |-> None,
                  error |-> Some([code |-> ErrorCode,
                                  message |-> to_string(result.res.err),
                                  data |-> None])],
         invoked |-> result.invoked]

\* Server::handle_request: the response, with the tool invocations made for it
handle_request(req) ==
    LET id == req.id
        method == req.method
        params == IF IsSome(req.params) THEN req.params.v ELSE JObj({})
        result == Dispatch(method, params)
    IN  [response |->
            IF IsOk(result.res)
            THEN [jsonrpc |-> "2.0", id |-> id,
                  result |-> Some(result.res.ok), error |-> None]
            ELSE [jsonrpc |-> "2.0", id |-> id,
                  result |-> None,
                  error |-> Some([code |-> ErrorCode,
                                  message |-> to_string(result.res.err),
                                  data |-> None])],
         invoked |-> result.invoked]

(***************************************************************************)
(* The requests of the model                                               *)
(***************************************************************************)
\* The seven method strings of the match, a string that is none of them, and
\* one that differs from callTool in case only
Methods ==
    {"initialize", "listTools", "callTool", "listResources", "readResource",
     "listPrompts", "getPrompt", "bogus", "calltool"}

\* Option<String> ids
Ids == {None, Some("1"), Some("2")}

\* Values of the `name` member: registered and unregistered tool names, one
\* that differs from a registered name in case only, and a non-string
NameValues ==
    {JStr("example_tool"), JStr("echo"), JStr("Echo"), JStr("nope"), JNum(7)}

\* Values of the `arguments` member
ArgumentValues == {JObj({<<"param", JStr("x")>>}), JObj({}), JStr("x")}

\* Option<Value> params: absent, non-objects, and objects over the members the
\* handlers read
ParamsValues ==
    {None, Some(JNull), Some(JStr("x")), Some(JArr(<<JStr("name")>>)), Some(JNum(7))}
    \cup {Some(JObj(n \cup a \cup u)) :
            n \in {{}} \cup {{<<"name", v>>} : v \in NameValues},
            a \in {{}} \cup {{<<"arguments", v>>} : v \in ArgumentValues},
            u \in {{}, {<<"uri", JStr("file:///a")>>}}}

\* JsonRpcRequest values
Requests ==
    [jsonrpc : {"2.0"}, id : Ids, method : Methods, params : ParamsValues]

(***************************************************************************)
(* server.rs: ServerBuilder                                                *)
(***************************************************************************)
\* Bound: how many add_tool calls a builder chain makes
MaxAdds == 3

\* ServerBuilder::new: the default capabilities
DefaultCapabilities ==
    [tools |-> Some(JObj({})), prompts |-> None, resources |-> None,
     notification_options |-> None, experimental_capabilities |-> None]

\* The capabilities main() and examples/basic_server.rs set
ExampleCapabilities ==
    [tools |-> Some(JObj({})), prompts |-> Some(JObj({})), resources |-> Some(JObj({})),
     notification_options |-> None, experimental_capabilities |-> None]

\* Arguments of the setters
ServerNames == {"example-mcp"}
VersionValues == {"0.2.0"}
CapabilitiesValues == {DefaultCapabilities, ExampleCapabilities}
\* The library's one Transport implementation
Transports == {"nats"}

\* No run loop has started and nothing has been served.
Quiet ==
    /\ request = None /\ response = None /\ invoked = <<>>
    /\ pc = "idle" /\ reply = None /\ serialized = None
    /\ accepted = <<>> /\ active = 0
    /\ stdout = <<>> /\ flushed = 0 /\ published = <<>>
    /\ incoming = None
    /\ run_result = None

\* ServerBuilder::new
ServerBuilder_new ==
    /\ transport = None
    /\ tools = Tools_new
    /\ server_name = "mcp-server"
    /\ server_version = "0.1.0"
    /\ capabilities = DefaultCapabilities
    /\ build_result = None
    /\ registered = <<>>

IsBuilder == build_result = None

\* ServerBuilder::transport
SetTransport ==
    /\ IsBuilder
    /\ \E t \in Transports : transport' = Some(t)
    /\ UNCHANGED <<tools, server_name, server_version, capabilities, build_result,
                   registered, serve_vars, loop_vars>>

\* ServerBuilder::name
SetName ==
    /\ IsBuilder
    /\ \E n \in ServerNames : server_name' = n
    /\ UNCHANGED <<transport, tools, server_version, capabilities, build_result,
                   registered, serve_vars, loop_vars>>

\* ServerBuilder::version
SetVersion ==
    /\ IsBuilder
    /\ \E v \in VersionValues : server_version' = v
    /\ UNCHANGED <<transport, tools, server_name, capabilities, build_result,
                   registered, serve_vars, loop_vars>>

\* ServerBuilder::capabilities
SetCapabilities ==
    /\ IsBuilder
    /\ \E c \in CapabilitiesValues : capabilities' = c
    /\ UNCHANGED <<transport, tools, server_name, server_version, build_result,
                   registered, serve_vars, loop_vars>>

\* ServerBuilder::add_tool
AddTool ==
    /\ IsBuilder
    /\ Len(registered) < MaxAdds
    /\ \E tool \in ToolUniverse :
        /\ tools' \in Tools_add(tools, tool)
        /\ registered' = Append(registered, tool)
    /\ UNCHANGED <<transport, server_name, server_version, capabilities, build_result,
                   serve_vars, loop_vars>>

\* Mutant of Build: a builder without transport builds a server all the same.
Build_without_transport ==
    /\ IsBuilder
    /\ \/ build_result' = Some(Err(Context(Anyhow("runtime"), "Failed to create Tokio runtime")))
       \/ build_result' = Some(Ok("server"))
    /\ UNCHANGED <<server_vars, registered, serve_vars, loop_vars>>

\* ServerBuilder::build: the runtime is created first and may fail; then a
\* missing transport is an error.
Build ==
    /\ IsBuilder
    /\ \/ build_result' = Some(Err(Context(Anyhow("runtime"), "Failed to create Tokio runtime")))
       \/ /\ IsNone(transport)
          /\ build_result' = Some(Err(Anyhow("Transport is required")))
       \/ /\ IsSome(transport)
          /\ build_result' = Some(Ok("server"))
    /\ UNCHANGED <<server_vars, registered, serve_vars, loop_vars>>

IsServer == IsSome(build_result) /\ IsOk(build_result.v)

(***************************************************************************)
(* Serving one request: a call of Server::handle_request                   *)
(***************************************************************************)
HandleRequestFrom(reqs) ==
    /\ IsServer
    /\ pc = "idle"
    /\ request = None
    /\ \E req \in reqs :
        /\ request' = Some(req)
        /\ response' = Some(handle_request(req).response)
        /\ invoked' = handle_request(req).invoked
    /\ UNCHANGED <<server_vars, build_result, registered, loop_vars>>

\* The registries a builder chain can leave behind
Registries ==
    UNION {Orders({<<t.name, t>> : t \in ts}) :
            ts \in {x \in SUBSET ToolUniverse :
                        \A a, b \in x : a.name = b.name => a = b}}

\* Spec: any built server, then one request.
Init ==
    /\ transport \in {Some(t) : t \in Transports}
    /\ tools \in Registries
    /\ \/ /\ server_name = "mcp-server" /\ server_version = "0.1.0"
          /\ capabilities = DefaultCapabilities
       \/ /\ server_name = "example-mcp" /\ server_version = "0.1.0"
          /\ capabilities = ExampleCapabilities
    /\ build_result = Some(Ok("server"))
    /\ registered = [i \in 1..Len(tools) |-> tools[i][2]]
    /\ Quiet

HandleRequest == HandleRequestFrom(Requests)

Next == HandleRequest

Spec == Init /\ [][Next]_vars

\* SpecBuild: the builder chain from ServerBuilder::new, build(), then one of
\* the requests that read the registry.
RegistryRequests ==
    {r \in Requests :
        /\ r.id = Some("1")
        /\ \/ r.method = "listTools" /\ r.params = Some(JObj({}))
           \/ /\ r.method = "callTool"
              /\ r.params \in {Some(JObj({<<"name", JStr(n)>>,
                                         <<"arguments", JObj({<<"param", JStr("x")>>})>>})) :
                                n \in {"example_tool", "echo"}}}

InitBuild == ServerBuilder_new /\ Quiet

Serve == HandleRequestFrom(RegistryRequests)

NextBuild ==
    \/ SetTransport
    \/ SetName
    \/ SetVersion
    \/ SetCapabilities
    \/ AddTool
    \/ Build
    \/ Serve

SpecBuild == InitBuild /\ [][NextBuild]_vars

(***************************************************************************)
(* Inbound payloads and their decoding (serde_json::from_str / from_slice  *)
(* into JsonRpcRequest)                                                    *)
(***************************************************************************)
\* Bound: how many decodable requests a run accepts
MaxRequests == 2

\* Deserialize for JsonRpcRequest, from a parsed document: jsonrpc and method
\* are required strings, id an optional string, params any optional value
\* (null reads as None); members it does not know are ignored.
DeserializeRequest(doc) ==
    IF doc.t # "obj" THEN Err(Anyhow("invalid type, expected struct JsonRpcRequest"))
    ELSE IF IsNone(Get(doc, "jsonrpc")) THEN Err(Anyhow("missing field jsonrpc"))
    ELSE IF IsNone(AsStr(Get(doc, "jsonrpc").v)) THEN Err(Anyhow("invalid type, expected a string"))
    ELSE IF IsSome(Get(doc, "id")) /\ Get(doc, "id").v # JNull /\ IsNone(AsStr(Get(doc, "id").v))
    THEN Err(Anyhow("invalid type, expected a string"))
    ELSE IF IsNone(Get(doc, "method")) THEN Err(Anyhow("missing field method"))
    ELSE IF IsNone(AsStr(Get(doc, "method").v)) THEN Err(Anyhow("invalid type, expected a string"))
    ELSE Ok([jsonrpc |-> Get(doc, "jsonrpc").v.s,
             id |-> IF IsSome(Get(doc, "id")) THEN AsStr(Get(doc, "id").v) ELSE None,
             method |-> Get(doc, "method").v.s,
             params |-> IF IsSome(Get(doc, "params")) /\ Get(doc, "params").v # JNull
                        THEN Get(doc, "params") ELSE None])

\* serde_json::from_str / from_slice of a payload: text that is no JSON document
\* (blank, cut short) is a syntax error, a document is deserialized.
from_str(line) ==
    CASE line.t = "blank" -> Err(Anyhow("EOF while parsing a value"))
      [] line.t = "truncated" -> Err(Anyhow("EOF while parsing an object"))
      [] line.t = "json" -> DeserializeRequest(line.doc)

\* The document a client sends for a request, as examples/test_client.rs builds
\* it; absent id and params are left out.
RequestDoc(r) ==
    JObj({<<"jsonrpc", JStr(r.jsonrpc)>>, <<"method", JStr(r.method)>>}
         \cup (IF IsSome(r.id) THEN {<<"id", JStr(r.id.v)>>} ELSE {})
         \cup (IF IsSome(r.params) THEN {<<"params", r.params.v>>} ELSE {}))

\* The requests the run loops are fed: one of each outcome (a result, each kind
\* of error), under each id
LoopRequests ==
    {r \in Requests :
        \/ r.method = "listTools" /\ r.params = Some(JObj({}))
        \/ r.method = "bogus" /\ r.params = None
        \/ /\ r.method = "callTool"
           /\ r.params \in
                {Some(JObj({})),
                 Some(JObj({<<"name", JStr("nope")>>})),
                 Some(JObj({<<"name", JStr("example_tool")>>})),
                 Some(JObj({<<"name", JStr("example_tool")>>,
                            <<"arguments", JObj({<<"param", JStr("x")>>})>>}))}}

\* Payloads that decode to a request
GoodPayloads == {[t |-> "json", doc |-> RequestDoc(r)] : r \in LoopRequests}

\* Payloads that do not: a blank line, a document cut short, a document that
\* is no object, one without method, one with a numeric id
BadPayloads ==
    {[t |-> "blank"], [t |-> "truncated"],
     [t |-> "json", doc |-> JStr("hello")],
     [t |-> "json", doc |-> JObj({<<"jsonrpc", JStr("2.0")>>, <<"id", JStr("1")>>})],
     [t |-> "json", doc |-> JObj({<<"jsonrpc", JStr("2.0")>>, <<"id", JNum(7)>>,
                                  <<"method", JStr("listTools")>>})]}

\* str::contains("EOF"), over the messages of the model
contains_EOF(msg) ==
    msg \in {"EOF received", "EOF while parsing a value", "EOF while parsing an object"}

\* Reply subjects of inbound NATS messages
Replies == {None, Some("_INBOX.1")}

\* The "\n" chunk StdioTransport::send writes after the document
Newline == [t |-> "newline"]

(***************************************************************************)
(* main.rs: StdioTransport and Server::run, the line-stream loop           *)
(***************************************************************************)
IsStdio == IsServer /\ transport = Some("stdio")

\* run() returns e
Return(e) ==
    /\ run_result' = Some(Err(e))
    /\ pc' = "returned"

\* Mutant of StdioTransport_receive: the end-of-input error is wrapped in the
\* read context like a read failure, so its display no longer says EOF.
StdioTransport_receive_wraps_eof(input) ==
    CASE input.t = "read_error" ->
            Err(Context(Anyhow("io error"), "Failed to read from stdin"))
      [] input.t = "eof" ->
            Err(Context(Anyhow("EOF received"), "Failed to read from stdin"))
      [] OTHER ->
            IF IsOk(from_str(input)) THEN from_str(input)
            ELSE Err(Context(from_str(input).err, "Failed to parse JSON-RPC request"))

\* Mutant of StdioTransport_receive: the parse error is returned as serde_json
\* made it, without the context "Failed to parse JSON-RPC request".
StdioTransport_receive_bare_parse_error(input) ==
    CASE input.t = "read_error" ->
            Err(Context(Anyhow("io error"), "Failed to read from stdin"))
      [] input.t = "eof" -> Err(Anyhow("EOF received"))
      [] OTHER -> from_str(input)

\* StdioTransport::receive on what standard input holds next
StdioTransport_receive(input) ==
    CASE input.t = "read_error" ->
            Err(Context(Anyhow("io error"), "Failed to read from stdin"))
      [] input.t = "eof" -> Err(Anyhow("EOF received"))
      [] OTHER ->
            IF IsOk(from_str(input)) THEN from_str(input)
            ELSE Err(Context(from_str(input).err, "Failed to parse JSON-RPC request"))

\* What read_line may find next on standard input. receive() wraps stdin in a
\* new BufReader on every call, so the loop sees only the line each call
\* returns; `input` is that line, an end of input or a read failure.
StdioInputs ==
    {[t |-> "read_error"], [t |-> "eof"]}
    \cup BadPayloads
    \cup (IF Len(accepted) < MaxRequests THEN GoodPayloads ELSE {})

\* run(): self.transport.open().await?
StdioOpen ==
    /\ IsStdio
    /\ pc = "idle"
    /\ pc' = "receive"
    /\ UNCHANGED <<server_vars, build_result, registered, serve_vars, reply, serialized,
                   accepted, active, stdout, flushed, published, incoming, run_result>>

\* Mutant of StdioReceive: a receive error other than end of input is logged
\* and the loop reads the next line.
StdioReceive_skips_errors ==
    /\ IsStdio
    /\ pc = "receive"
    /\ \E input \in StdioInputs :
        LET received == StdioTransport_receive(input)
        IN  /\ incoming' = Some(input)
            /\ IF IsOk(received)
               THEN /\ request' = Some(received.ok)
                    /\ accepted' = Append(accepted, received.ok.id)
                    /\ active' = active + 1
                    /\ pc' = "handle"
               ELSE IF contains_EOF(to_string(received.err))
               THEN /\ pc' = "close"
                    /\ UNCHANGED <<request, accepted, active>>
               ELSE /\ pc' = "receive"
                    /\ UNCHANGED <<request, accepted, active>>
    /\ UNCHANGED <<server_vars, build_result, registered, response, invoked, reply,
                   serialized, stdout, flushed, published, run_result>>

\* run(): match self.transport.receive().await
StdioReceive ==
    /\ IsStdio
    /\ pc = "receive"
    /\ \E input \in StdioInputs :
        LET received == StdioTransport_receive(input)
        IN  /\ incoming' = Some(input)
            /\ IF IsOk(received)
               THEN /\ request' = Some(received.ok)
                    /\ accepted' = Append(accepted, received.ok.id)
                    /\ active' = active + 1
                    /\ pc' = "handle"
                    /\ UNCHANGED run_result
               ELSE IF contains_EOF(to_string(received.err))
               THEN /\ pc' = "close"
                    /\ UNCHANGED <<request, accepted, active, run_result>>
               ELSE /\ Return(Context(received.err, "Failed to receive request"))
                    /\ UNCHANGED <<request, accepted, active>>
    /\ UNCHANGED <<server_vars, build_result, registered, response, invoked, reply,
                   serialized, stdout, flushed, published>>

\* Mutant of StdioHandle: a response that bears an error is returned from run()
\* as an error instead of being sent.
StdioHandle_propagates_errors ==
    /\ IsStdio
    /\ pc = "handle"
    /\ response' = Some(handle_request(request.v).response)
    /\ invoked' = handle_request(request.v).invoked
    /\ IF IsSome(handle_request(request.v).response.error)
       THEN Return(Anyhow(handle_request(request.v).response.error.v.message))
       ELSE pc' = "send" /\ UNCHANGED run_result
    /\ UNCHANGED <<server_vars, build_result, registered, request, reply, serialized,
                   accepted, active, stdout, flushed, published, incoming>>

\* Mutant of StdioHandle: a tool is taken out of the registry by its first call.
StdioHandle_consumes_tool ==
    /\ IsStdio
    /\ pc = "handle"
    /\ response' = Some(handle_request(request.v).response)
    /\ invoked' = handle_request(request.v).invoked
    /\ tools' = IF handle_request(request.v).invoked = <<>> THEN tools ELSE Tools_new
    /\ pc' = "send"
    /\ UNCHANGED <<transport, server_name, server_version, capabilities, build_result,
                   registered, request, reply, serialized, accepted, active, stdout,
                   flushed, published, incoming, run_result>>

\* run(): let response = self.handle_request(request).await
StdioHandle ==
    /\ IsStdio
    /\ pc = "handle"
    /\ response' = Some(handle_request(request.v).response)
    /\ invoked' = handle_request(request.v).invoked
    /\ pc' = "send"
    /\ UNCHANGED <<server_vars, build_result, registered, request, reply, serialized,
                   accepted, active, stdout, flushed, published, incoming, run_result>>

\* StdioTransport::send: serde_json::to_string(&response)?, whose error send
\* and run() hand on
StdioSerialize ==
    /\ IsStdio
    /\ pc = "send"
    /\ \/ /\ serialized' = Some(JsonRpcResponseJson(response.v))
          /\ pc' = "write"
          /\ UNCHANGED run_result
       \/ /\ Return(Anyhow("serialize failed"))
          /\ UNCHANGED serialized
    /\ UNCHANGED <<server_vars, build_result, registered, serve_vars, reply,
                   accepted, active, stdout, flushed, published, incoming>>

\* StdioTransport::send: stdout.write_all(serialized.as_bytes()).await?
StdioWrite ==
    /\ IsStdio
    /\ pc = "write"
    /\ \/ /\ stdout' = Append(stdout, serialized.v)
          /\ pc' = "newline"
          /\ UNCHANGED run_result
       \/ /\ Return(Anyhow("io error"))
          /\ UNCHANGED stdout
    /\ UNCHANGED <<server_vars, build_result, registered, serve_vars, reply, serialized,
                   accepted, active, flushed, published, incoming>>

\* Mutant of StdioNewline: send returns after the newline, without the flush.
StdioNewline_skips_flush ==
    /\ IsStdio
    /\ pc = "newline"
    /\ stdout' = Append(stdout, Newline)
    /\ active' = active - 1
    /\ request' = None /\ response' = None /\ invoked' = <<>>
    /\ serialized' = None /\ incoming' = None
    /\ pc' = "receive"
    /\ UNCHANGED <<server_vars, build_result, registered, reply, accepted, flushed,
                   published, run_result>>

\* StdioTransport::send: stdout.write_all(b"\n").await?
StdioNewline ==
    /\ IsStdio
    /\ pc = "newline"
    /\ \/ /\ stdout' = Append(stdout, Newline)
          /\ pc' = "flush"
          /\ UNCHANGED run_result
       \/ /\ Return(Anyhow("io error"))
          /\ UNCHANGED stdout
    /\ UNCHANGED <<server_vars, build_result, registered, serve_vars, reply, serialized,
                   accepted, active, flushed, published, incoming>>

\* StdioTransport::send: stdout.flush().await?, Ok(()), and the loop's next turn
StdioFlush ==
    /\ IsStdio
    /\ pc = "flush"
    /\ \/ /\ flushed' = Len(stdout)
          /\ active' = active - 1
          /\ request' = None /\ response' = None /\ invoked' = <<>>
          /\ serialized' = None /\ incoming' = None
          /\ pc' = "receive"
          /\ UNCHANGED run_result
       \/ /\ Return(Anyhow("io error"))
          /\ UNCHANGED <<flushed, active, serve_vars, serialized, incoming>>
    /\ UNCHANGED <<server_vars, build_result, registered, reply, accepted, stdout,
                   published>>

\* run(): after the break, self.transport.close().await? and Ok(())
StdioClose ==
    /\ IsStdio
    /\ pc = "close"
    /\ run_result' = Some(Ok("unit"))
    /\ pc' = "returned"
    /\ UNCHANGED <<server_vars, build_result, registered, serve_vars, reply, serialized,
                   accepted, active, stdout, flushed, published, incoming>>

(***************************************************************************)
(* transport/nats.rs: NatsTransport::run, the publish/subscribe loop       *)
(***************************************************************************)
IsNats == IsServer /\ transport = Some("nats")

\* What subscription.next() may yield: None when the subscription has ended, or
\* a message with its payload and optional reply subject
NatsNextValues ==
    {None}
    \cup {Some([payload |-> p, reply |-> r]) : p \in BadPayloads, r \in Replies}
    \cup (IF Len(accepted) < MaxRequests
          THEN {Some([payload |-> p, reply |-> r]) : p \in GoodPayloads, r \in Replies}
          ELSE {})

\* run(): self.client.subscribe(self.subject.clone()).await?
NatsSubscribe ==
    /\ IsNats
    /\ pc = "idle"
    /\ \/ pc' = "next" /\ UNCHANGED run_result
       \/ Return(Anyhow("subscribe failed"))
    /\ UNCHANGED <<server_vars, build_result, registered, serve_vars, reply, serialized,
                   accepted, active, stdout, flushed, published, incoming>>

\* Mutant of NatsNext: the payload is decoded with `?`, so a payload that does
\* not decode makes run() return the error.
NatsNext_decode_error_returns ==
    /\ IsNats
    /\ pc = "next"
    /\ \E next \in NatsNextValues :
        /\ incoming' = Some(next)
        /\ IF IsNone(next)
           THEN /\ run_result' = Some(Ok("unit"))
                /\ pc' = "returned"
                /\ UNCHANGED <<request, reply, accepted, active>>
           ELSE LET decoded == from_str(next.v.payload)
                IN  IF IsOk(decoded)
                    THEN /\ request' = Some(decoded.ok)
                         /\ reply' = next.v.reply
                         /\ accepted' = Append(accepted, decoded.ok.id)
                         /\ active' = active + 1
                         /\ pc' = "handle"
                         /\ UNCHANGED run_result
                    ELSE /\ Return(decoded.err)
                         /\ UNCHANGED <<request, reply, accepted, active>>
    /\ UNCHANGED <<server_vars, build_result, registered, response, invoked, serialized,
                   stdout, flushed, published>>

\* Mutant of NatsNext: the end of the subscription is reported as an error.
NatsNext_end_is_error ==
    /\ IsNats
    /\ pc = "next"
    /\ \E next \in NatsNextValues :
        /\ incoming' = Some(next)
        /\ IF IsNone(next)
           THEN /\ Return(Anyhow("subscription closed"))
                /\ UNCHANGED <<request, reply, accepted, active>>
           ELSE LET decoded == from_str(next.v.payload)
                IN  IF IsOk(decoded)
                    THEN /\ request' = Some(decoded.ok)
                         /\ reply' = next.v.reply
                         /\ accepted' = Append(accepted, decoded.ok.id)
                         /\ active' = active + 1
                         /\ pc' = "handle"
                         /\ UNCHANGED run_result
                    ELSE /\ pc' = "next"
                         /\ UNCHANGED <<request, reply, accepted, active, run_result>>
    /\ UNCHANGED <<server_vars, build_result, registered, response, invoked, serialized,
                   stdout, flushed, published>>

\* run(): while let Some(message) = subscription.next().await, and the match on
\* serde_json::from_slice(&message.payload)
NatsNext ==
    /\ IsNats
    /\ pc = "next"
    /\ \E next \in NatsNextValues :
        /\ incoming' = Some(next)
        /\ IF IsNone(next)
           THEN /\ run_result' = Some(Ok("unit"))
                /\ pc' = "returned"
                /\ UNCHANGED <<request, reply, accepted, active>>
           ELSE LET decoded == from_str(next.v.payload)
                IN  IF IsOk(decoded)
                    THEN /\ request' = Some(decoded.ok)
                         /\ reply' = next.v.reply
                         /\ accepted' = Append(accepted, decoded.ok.id)
                         /\ active' = active + 1
                         /\ pc' = "handle"
                         /\ UNCHANGED run_result
                    ELSE /\ pc' = "next"
                         /\ UNCHANGED <<request, reply, accepted, active, run_result>>
    /\ UNCHANGED <<server_vars, build_result, registered, response, invoked, serialized,
                   stdout, flushed, published>>

\* Mutant of NatsHandle: the request is handed to a spawned task and the loop
\* polls the subscription again at once.
NatsHandle_spawned ==
    /\ IsNats
    /\ pc = "handle"
    /\ response' = Some(handle_request(request.v).response)
    /\ invoked' = handle_request(request.v).invoked
    /\ pc' = "next"
    /\ UNCHANGED <<server_vars, build_result, registered, request, reply, serialized,
                   accepted, active, stdout, flushed, published, incoming, run_result>>

\* run(): let response = server.handle_request(request).await
NatsHandle ==
    /\ IsNats
    /\ pc = "handle"
    /\ response' = Some(handle_request(request.v).response)
    /\ invoked' = handle_request(request.v).invoked
    /\ pc' = "encode"
    /\ UNCHANGED <<server_vars, build_result, registered, request, reply, serialized,
                   accepted, active, stdout, flushed, published, incoming, run_result>>

\* run(): let serialized = serde_json::to_vec(&response)?, whose error run()
\* hands on
NatsEncode ==
    /\ IsNats
    /\ pc = "encode"
    /\ \/ /\ serialized' = Some(JsonRpcResponseJson(response.v))
          /\ pc' = "publish"
          /\ UNCHANGED run_result
       \/ /\ Return(Anyhow("serialize failed"))
          /\ UNCHANGED serialized
    /\ UNCHANGED <<server_vars, build_result, registered, serve_vars, reply,
                   accepted, active, stdout, flushed, published, incoming>>

\* The loop body is over: its locals are dropped and the loop polls again.
NatsIterationDone ==
    /\ active' = active - 1
    /\ request' = None /\ response' = None /\ invoked' = <<>>
    /\ serialized' = None /\ reply' = None /\ incoming' = None
    /\ pc' = "next"
    /\ UNCHANGED run_result

\* Mutant of NatsPublish: a response to a message without a reply subject is
\* published on the requests subject instead of being dropped.
NatsPublish_without_reply ==
    /\ IsNats
    /\ pc = "publish"
    /\ \/ /\ IsSome(reply)
          /\ published' = Append(published, [subject |-> reply.v, payload |-> serialized.v])
          /\ NatsIterationDone
       \/ /\ IsSome(reply)
          /\ Return(Anyhow("publish failed"))
          /\ UNCHANGED <<published, active, serve_vars, serialized, reply, incoming>>
       \/ /\ IsNone(reply)
          /\ published' = Append(published,
                                 [subject |-> "mcp.requests", payload |-> serialized.v])
          /\ NatsIterationDone
    /\ UNCHANGED <<server_vars, build_result, registered, accepted, stdout, flushed>>

\* Mutant of NatsPublish: a failed publish is logged and the loop polls the
\* subscription again.
NatsPublish_ignores_failure ==
    /\ IsNats
    /\ pc = "publish"
    /\ \/ /\ IsSome(reply)
          /\ published' = Append(published, [subject |-> reply.v, payload |-> serialized.v])
          /\ NatsIterationDone
       \/ /\ IsSome(reply)
          /\ UNCHANGED published
          /\ NatsIterationDone
       \/ /\ IsNone(reply)
          /\ UNCHANGED published
          /\ NatsIterationDone
    /\ UNCHANGED <<server_vars, build_result, registered, accepted, stdout, flushed>>

\* run(): if let Some(reply) = message.reply { publish(reply, serialized).await? }
NatsPublish ==
    /\ IsNats
    /\ pc = "publish"
    /\ \/ /\ IsSome(reply)
          /\ published' = Append(published, [subject |-> reply.v, payload |-> serialized.v])
          /\ NatsIterationDone
       \/ /\ IsSome(reply)
          /\ Return(Anyhow("publish failed"))
          /\ UNCHANGED <<published, active, serve_vars, serialized, reply, incoming>>
       \/ /\ IsNone(reply)
          /\ UNCHANGED published
          /\ NatsIterationDone
    /\ UNCHANGED <<server_vars, build_result, registered, accepted, stdout, flushed>>

\* SpecRun: the server main() (stdio) or examples/basic_server.rs (NATS) builds,
\* about to call run().
InitRun ==
    /\ transport \in {Some("stdio"), Some("nats")}
    /\ tools = <<<<ExampleTool.name, ExampleTool>>>>
    /\ server_name = "example-mcp"
    /\ server_version = "0.1.0"
    /\ capabilities = ExampleCapabilities
    /\ build_result = Some(Ok("server"))
    /\ registered = <<ExampleTool>>
    /\ Quiet

NextRun ==
    \/ StdioOpen
    \/ StdioReceive
    \/ StdioHandle
    \/ StdioSerialize
    \/ StdioWrite
    \/ StdioNewline
    \/ StdioFlush
    \/ StdioClose
    \/ NatsSubscribe
    \/ NatsNext
    \/ NatsHandle
    \/ NatsEncode
    \/ NatsPublish

SpecRun == InitRun /\ [][NextRun]_vars

(***************************************************************************)
(* Claims                                                                  *)
(***************************************************************************)
\* The request served and its response, once handle_request has returned
Served == IsSome(request) /\ IsSome(response)
Req == request.v
Resp == response.v
\* params as the handlers see it
ParamsOf(req) == IF IsSome(req.params) THEN req.params.v ELSE JObj({})

\* The method strings the protocol defines
RecognizedMethods ==
    {"initialize", "listTools", "callTool", "listResources", "readResource",
     "listPrompts", "getPrompt"}

\* The JSON-RPC code of MethodNotFound, the one an unknown method is answered with
MethodNotFoundCode == -32601

\* C1: every response of handle_request carries the id of its request (none when
\* the request had none) and exactly one of result and error.
C1_IdEchoedExactlyOneOfResultError ==
    Served =>
        /\ Resp.id = Req.id
        /\ IsSome(Resp.result) # IsSome(Resp.error)

\* C1 witness: an unrecognized method without id was answered with an error.
C1_Witness ==
    /\ Served
    /\ Req.method = "bogus" /\ Req.id = None
    /\ IsSome(Resp.error) /\ Resp.id = None

\* A callTool request naming, with a string, a tool the registry does not hold
UnknownToolRequest ==
    /\ Served
    /\ Req.method = "callTool"
    /\ IsSome(GetStr(ParamsOf(Req), "name"))
    /\ GetStr(ParamsOf(Req), "name").v \notin Keys(tools)

\* C4: callTool with an unregistered name is answered without result and with
\* an error of kind ToolNotFound, which its code tells apart from
\* MethodNotFound.
C4_UnknownToolIsToolNotFound ==
    UnknownToolRequest =>
        /\ IsNone(Resp.result)
        /\ IsSome(Resp.error)
        /\ Resp.error.v.code # MethodNotFoundCode

\* A callTool request naming a registered tool
KnownToolRequest ==
    /\ Served
    /\ Req.method = "callTool"
    /\ IsSome(GetStr(ParamsOf(Req), "name"))
    /\ GetStr(ParamsOf(Req), "name").v \in Keys(tools)
NamedTool == HashMap_get(tools, GetStr(ParamsOf(Req), "name").v).v
GivenArguments == Get(ParamsOf(Req), "arguments")

\* C5: callTool on a registered tool that succeeds is answered without error and
\* with result {"content": blocks}, the blocks being the tool's own, in the
\* tool's order; the tool was called once, with the request's `arguments`
\* (None when omitted).
C5_CallToolReturnsToolContent ==
    (KnownToolRequest /\ IsOk(Tool_call(NamedTool, GivenArguments))) =>
        LET blocks == Tool_call(NamedTool, GivenArguments).ok
        IN  /\ IsNone(Resp.error)
            /\ Resp.result =
                Some(JObj({<<"content",
                            JArr([i \in 1..Len(blocks) |->
                                JObj({<<"type", JStr("text")>>,
                                      <<"text", JStr(blocks[i].text)>>})])>>}))
            /\ invoked = <<[tool |-> NamedTool, input |-> GivenArguments]>>

\* C5 witness: a tool returned two blocks and the response holds both, in order;
\* the call carried the request's arguments.
C5_Witness ==
    /\ KnownToolRequest
    /\ NamedTool.kind = "pair"
    /\ IsSome(GivenArguments)
    /\ IsSome(Resp.result)
    /\ Get(Resp.result.v, "content") =
        Some(JArr(<<ContentJson(Text("first")), ContentJson(Text("second"))>>))

\* C5 witness of the ExampleTool case the test client exercises
C5_ExampleWitness ==
    /\ KnownToolRequest
    /\ NamedTool = ExampleTool
    /\ GivenArguments = Some(JObj({<<"param", JStr("x")>>}))
    /\ Resp.result = Some(JObj({<<"content",
            JArr(<<JObj({<<"type", JStr("text")>>,
                         <<"text", JStr("Tool executed with param: x")>>})>>)>>}))

\* A callTool request whose params hold no string `name`
MissingNameRequest ==
    /\ Served
    /\ Req.method = "callTool"
    /\ IsNone(GetStr(ParamsOf(Req), "name"))

\* C6: callTool without a string `name` is answered without result and with an
\* error of kind InvalidParams, which its code tells apart from MethodNotFound.
C6_MissingNameIsInvalidParams ==
    MissingNameRequest =>
        /\ IsNone(Resp.result)
        /\ IsSome(Resp.error)
        /\ Resp.error.v.code # MethodNotFoundCode

\* C7: a method string outside the seven recognized ones (compared exactly) is
\* answered without result, with the MethodNotFound code and the message of the
\* match's default arm, and no tool was called.
C7_UnknownMethodIsMethodNotFound ==
    (Served /\ Req.method \notin RecognizedMethods) =>
        /\ IsNone(Resp.result)
        /\ IsSome(Resp.error)
        /\ Resp.error.v.code = MethodNotFoundCode
        /\ Resp.error.v.message = "Method not found: " \o Req.method
        /\ invoked = <<>>

\* C7 witness: "calltool", naming a registered tool with good arguments, was
\* refused as an unknown method.
C7_Witness ==
    /\ Served
    /\ Req.method = "calltool"
    /\ GetStr(ParamsOf(Req), "name") = Some("example_tool")
    /\ "example_tool" \in Keys(tools)
    /\ Get(ParamsOf(Req), "arguments") = Some(JObj({<<"param", JStr("x")>>}))
    /\ IsSome(Resp.error) /\ IsNone(Resp.result)

\* C8: callTool on a registered tool whose call fails is answered without result
\* and with an error of kind ToolExecutionError, which its code tells apart from
\* MethodNotFound.
C8_FailingToolIsToolExecutionError ==
    (KnownToolRequest /\ IsErr(Tool_call(NamedTool, GivenArguments))) =>
        /\ IsNone(Resp.result)
        /\ IsSome(Resp.error)
        /\ Resp.error.v.code # MethodNotFoundCode

\* The index of the latest add_tool call for a name
LastAdd(name) ==
    CHOOSE i \in 1..Len(registered) :
        /\ registered[i].name = name
        /\ \A j \in (i + 1)..Len(registered) : registered[j].name # name

\* C10: after any sequence of add_tool calls the registry holds one entry per
\* distinct name registered, each the tool registered last under its name;
\* listTools lists exactly those tools and callTool calls exactly that tool.
C10_LastWriteWins ==
    LET names == {registered[i].name : i \in 1..Len(registered)}
    IN  /\ Keys(tools) = names
        /\ Len(tools) = Cardinality(names)
        /\ \A i \in 1..Len(tools) : tools[i][2] = registered[LastAdd(tools[i][1])]
        /\ (Served /\ Req.method = "listTools") =>
            /\ IsSome(Resp.result)
            /\ IsSome(Get(Resp.result.v, "tools"))
            /\ LET listed == Get(Resp.result.v, "tools").v.a
               IN  /\ Len(listed) = Cardinality(names)
                   /\ {listed[i] : i \in 1..Len(listed)} =
                        {JObj({<<"name", JStr(n)>>,
                               <<"description", JStr(registered[LastAdd(n)].description)>>,
                               <<"inputSchema", registered[LastAdd(n)].input_schema>>}) :
                            n \in names}
        /\ (Served /\ Req.method = "callTool"
                /\ IsSome(GetStr(ParamsOf(Req), "name"))
                /\ GetStr(ParamsOf(Req), "name").v \in names) =>
            /\ Len(invoked) = 1
            /\ invoked[1].tool = registered[LastAdd(GetStr(ParamsOf(Req), "name").v)]

\* C10 witness: example_tool, echo, then example_tool again with new metadata;
\* listTools shows two tools, example_tool with the new description.
C10_Witness ==
    /\ Len(registered) = 3
    /\ registered[1] = ExampleTool
    /\ registered[2].name = "echo"
    /\ registered[3].name = "example_tool" /\ registered[3] # ExampleTool
    /\ Served /\ Req.method = "listTools"
    /\ Len(Get(Resp.result.v, "tools").v.a) = 2
    /\ \E i \in 1..2 :
        Get(Get(Resp.result.v, "tools").v.a[i], "description")
            = Some(JStr("Example tool, revised"))

\* The id member of an encoded response
DocId(doc) == Get(doc, "id").v

\* C2: on the line-stream transport, whenever the loop is about to read (or has
\* ended on end-of-input), every request decoded so far has exactly one
\* response line on standard output, the k-th line carrying the k-th request's
\* id, and all of it is flushed.
C2_StdioOneFlushedLinePerRequestInOrder ==
    (transport = Some("stdio")
        /\ (pc \in {"receive", "close"} \/ run_result = Some(Ok("unit")))) =>
        /\ Len(stdout) = 2 * Len(accepted)
        /\ flushed = Len(stdout)
        /\ \A k \in 1..Len(accepted) :
            /\ stdout[2 * k - 1] # Newline
            /\ DocId(stdout[2 * k - 1]) = OptStrJson(accepted[k])
            /\ stdout[2 * k] = Newline

\* C2 witness: two requests with different ids were answered, in order, and the
\* loop is about to read the third line.
C2_Witness ==
    /\ transport = Some("stdio")
    /\ pc = "receive"
    /\ accepted = <<Some("2"), Some("1")>>
    /\ Len(stdout) = 4 /\ flushed = 4
    /\ DocId(stdout[1]) = JStr("2") /\ DocId(stdout[3]) = JStr("1")

\* C3: on either transport at most one request is being served; at the points
\* where the loop takes the next message nothing is in flight, and on the
\* line-stream transport every earlier response is out.
C3_OneRequestAtATime ==
    /\ active \in {0, 1}
    /\ pc \in {"idle", "receive", "next", "close"} =>
        /\ active = 0
        /\ request = None /\ response = None /\ serialized = None
    /\ pc \in {"handle", "send", "write", "newline", "flush", "encode", "publish"} =>
        /\ active = 1
        /\ IsSome(request)
    /\ pc = "receive" => flushed = 2 * Len(accepted)

\* C3 witness: the pub/sub loop has taken a second message, after the reply to
\* the first was published.
C3_Witness ==
    /\ transport = Some("nats")
    /\ pc = "handle"
    /\ Len(accepted) = 2
    /\ active = 1
    /\ Len(published) = 1

\* The steps of run() that may return an error: receiving and sending (encoding
\* the response is a part of sending it)
TransportSteps ==
    {"idle", "receive", "next", "send", "write", "newline", "flush", "encode",
     "publish"}

\* C9: whatever response the dispatcher builds, an error response included, the
\* loop goes on to send it; run() returns only from a receive or send step,
\* never from the dispatch step; and while the loop waits for the next message
\* run() has not returned.
C9_DispatchErrorsNeverAbortTheLoop ==
    /\ [][/\ pc = "handle" =>
                /\ pc' \in {"send", "encode"}
                /\ run_result' = None
                /\ IsSome(response')
          /\ run_result' # run_result => pc \in TransportSteps \cup {"close"}
          /\ (run_result' # run_result /\ IsErr(run_result'.v)) => pc \in TransportSteps
         ]_vars
    /\ [](pc \in {"receive", "next", "handle"} => run_result = None)

\* An encoded response that bears an error
IsErrorDoc(doc) == doc # Newline /\ Get(doc, "error").v # JNull

\* C9 witness (line-stream): the first request was answered with an error and
\* the second request was then served and answered with a result.
C9_Witness ==
    /\ transport = Some("stdio")
    /\ pc = "receive"
    /\ Len(accepted) = 2
    /\ Len(stdout) = 4
    /\ IsErrorDoc(stdout[1])
    /\ ~IsErrorDoc(stdout[3])

\* C9 witness (pub/sub): an error reply was published and the loop took the
\* next message.
C9_NatsWitness ==
    /\ transport = Some("nats")
    /\ Len(published) = 1
    /\ IsErrorDoc(published[1].payload)
    /\ pc = "handle"
    /\ Len(accepted) = 2

\* The definitions a listTools response carries under `tools`
Listed == Get(Resp.result.v, "tools").v.a
\* The registered tool a listed definition names
RegisteredAs(d) == HashMap_get(tools, Get(d, "name").v.s).v

\* C11: listTools always succeeds, whatever its params, and returns under `tools`
\* exactly one definition (name, description, inputSchema) for every registered
\* tool and nothing else: the listed names are pairwise distinct and are the
\* registry's key set, each definition is that of the tool registered under its
\* name, and an empty registry lists as an empty array.
C11_ListToolsListsExactlyTheRegistry ==
    (Served /\ Req.method = "listTools") =>
        /\ IsNone(Resp.error)
        /\ IsSome(Resp.result)
        /\ IsSome(Get(Resp.result.v, "tools"))
        /\ Get(Resp.result.v, "tools").v.t = "arr"
        /\ \A i \in 1..Len(Listed) :
            /\ IsSome(GetStr(Listed[i], "name"))
            /\ Get(Listed[i], "name").v.s \in Keys(tools)
            /\ Listed[i] = JObj({<<"name", JStr(RegisteredAs(Listed[i]).name)>>,
                                 <<"description",
                                   JStr(RegisteredAs(Listed[i]).description)>>,
                                 <<"inputSchema",
                                   RegisteredAs(Listed[i]).input_schema>>})
        /\ \A i, j \in 1..Len(Listed) :
            i # j => Get(Listed[i], "name").v.s # Get(Listed[j], "name").v.s
        /\ {Get(Listed[i], "name").v.s : i \in 1..Len(Listed)} = Keys(tools)
        /\ Len(Listed) = Cardinality(Keys(tools))
        /\ (tools = <<>> => Listed = <<>>)

\* C11 witness: a registry of two tools was listed in answer to a listTools
\* whose params are not an object.
C11_Witness ==
    /\ Served /\ Req.method = "listTools"
    /\ Req.params = Some(JNum(7))
    /\ Cardinality(Keys(tools)) = 2
    /\ Len(Listed) = 2

\* C11 witness (empty registry): listTools answered with an empty list.
C11_EmptyWitness ==
    /\ Served /\ Req.method = "listTools"
    /\ tools = <<>>
    /\ IsNone(Resp.error)
    /\ Listed = <<>>

\* read_line returned 0 bytes: standard input has ended
EndOfInput == [t |-> "eof"]

\* C12: on the line-stream transport, end of input is normal termination: the
\* receive that finds it leaves the loop for close() without an error and
\* without writing anything, close() is followed by run() returning Ok(()), and
\* nothing is read, served or written after that.
C12_EndOfInputIsNormalTermination ==
    /\ [][(IsStdio /\ pc = "receive" /\ incoming' = Some(EndOfInput)) =>
            /\ pc' = "close"
            /\ run_result' = None
            /\ UNCHANGED <<serve_vars, accepted, stdout, flushed>>]_vars
    /\ [][(IsStdio /\ pc = "close") =>
            /\ pc' = "returned"
            /\ run_result' = Some(Ok("unit"))
            /\ UNCHANGED <<serve_vars, accepted, stdout, flushed, incoming>>]_vars
    /\ []((IsStdio /\ incoming = Some(EndOfInput)) =>
            /\ pc \in {"close", "returned"}
            /\ run_result \in {None, Some(Ok("unit"))}
            /\ request = None)
    /\ [][pc # "returned"]_vars

\* C12 witness: after one request was served, input ended and run() returned
\* Ok(()).
C12_Witness ==
    /\ IsStdio
    /\ incoming = Some(EndOfInput)
    /\ Len(accepted) = 1
    /\ flushed = 2
    /\ pc = "returned"
    /\ run_result = Some(Ok("unit"))

\* C13: on the line-stream transport a line that fails to decode as a Request is
\* fatal: the receive that reads it makes run() return an error (the decode
\* error under the context "Failed to receive request"), no request is
\* dispatched and nothing is written for that line, and no step follows the
\* return, so no later line is read or dispatched.
C13_UndecodableLineIsFatal ==
    /\ [][(IsStdio /\ pc = "receive" /\ IsSome(incoming')
           /\ incoming'.v \in BadPayloads) =>
            /\ pc' = "returned"
            /\ IsSome(run_result') /\ IsErr(run_result'.v)
            /\ Len(run_result'.v.err) >= 2
            /\ run_result'.v.err[1] = "Failed to receive request"
            /\ run_result'.v.err[2] = "Failed to parse JSON-RPC request"
            /\ UNCHANGED <<serve_vars, accepted, active, stdout, flushed>>]_vars
    /\ []((IsStdio /\ IsSome(incoming) /\ incoming.v \in BadPayloads) =>
            /\ pc = "returned"
            /\ request = None /\ response = None /\ invoked = <<>>
            /\ flushed = Len(stdout)
            /\ Len(stdout) = 2 * Len(accepted))
    /\ [][pc = "returned" => UNCHANGED vars]_vars

\* C13 witness: one request was answered, then a line that does not decode made
\* run() return an error, standard output still holding the one response line.
C13_Witness ==
    /\ IsStdio
    /\ IsSome(incoming) /\ incoming.v \in BadPayloads
    /\ Len(accepted) = 1
    /\ Len(stdout) = 2
    /\ pc = "returned"
    /\ IsSome(run_result) /\ IsErr(run_result.v)

\* The NATS message the loop's current turn took from the subscription
Message == incoming.v.v
\* The step takes a message whose payload decodes to a request
TakesDecodable ==
    /\ IsNats /\ pc = "next"
    /\ IsSome(incoming') /\ IsSome(incoming'.v)
    /\ incoming'.v.v.payload \in GoodPayloads

\* C14: on the publish/subscribe transport every decodable message is
\* dispatched exactly once; when the message carries a reply subject the loop
\* publishes exactly one message, the encoded response, to that subject (or the
\* publish fails and run() returns the error); when it carries none the
\* response is computed and dropped, nothing is published and the loop polls
\* the subscription again. Nothing is published at any other step.
C14_ReplyPublishedIffReplySubject ==
    /\ [][TakesDecodable =>
            /\ pc' = "handle"
            /\ IsSome(request') /\ response' = None
            /\ RequestDoc(request'.v) = incoming'.v.v.payload.doc
            /\ UNCHANGED published]_vars
    /\ [][(IsNats /\ response' # response /\ IsSome(response')) =>
            /\ pc = "handle" /\ response = None
            /\ pc' = "encode"
            /\ UNCHANGED <<request, incoming, published>>]_vars
    /\ [][(IsNats /\ pc = "publish" /\ IsSome(Message.reply)) =>
            \/ /\ published' =
                    Append(published, [subject |-> Message.reply.v,
                                       payload |-> JsonRpcResponseJson(Resp)])
               /\ pc' = "next" /\ run_result' = None
            \/ /\ published' = published
               /\ pc' = "returned" /\ IsErr(run_result'.v)]_vars
    /\ [][(IsNats /\ pc = "publish" /\ IsNone(Message.reply)) =>
            /\ published' = published
            /\ pc' = "next" /\ run_result' = None]_vars
    /\ [][published' # published => (IsNats /\ pc = "publish")]_vars
    /\ []((IsNats /\ pc \in {"encode", "publish"}) => Served)
    /\ []((IsNats /\ pc = "handle") => (IsSome(request) /\ response = None))

\* C14 witness: a message with a reply subject was answered there, a second one
\* without reply subject was served and dropped, and the loop polls again.
C14_Witness ==
    /\ IsNats
    /\ pc = "next"
    /\ Len(accepted) = 2
    /\ Len(published) = 1
    /\ published[1].subject = "_INBOX.1"
    /\ incoming = None
    /\ run_result = None

\* The step takes a message whose payload does not decode to a request
TakesUndecodable ==
    /\ IsNats /\ pc = "next"
    /\ IsSome(incoming') /\ IsSome(incoming'.v)
    /\ incoming'.v.v.payload \in BadPayloads
\* The loop has just skipped such a message
Skipped ==
    /\ IsNats
    /\ IsSome(incoming) /\ IsSome(incoming.v)
    /\ Message.payload \in BadPayloads

\* C15: on the publish/subscribe transport a message whose payload fails to
\* decode is skipped: the dispatcher is not invoked, nothing is published even
\* when the message carries a reply subject, run() does not return, and the loop
\* is back at the subscription, where the next message can be taken as usual.
C15_UndecodableMessageIsSkipped ==
    /\ [][TakesUndecodable =>
            /\ pc' = "next"
            /\ run_result' = None
            /\ UNCHANGED <<serve_vars, reply, serialized, accepted, active,
                           published>>]_vars
    /\ [](Skipped =>
            /\ pc = "next"
            /\ run_result = None
            /\ request = None /\ response = None /\ invoked = <<>>
            /\ active = 0
            /\ Len(published) <= Len(accepted)
            /\ ENABLED NatsNext)

\* C15 witness: after one request was answered, a message that does not decode
\* and carries a reply subject was skipped; only the first answer is published.
C15_Witness ==
    /\ Skipped
    /\ IsSome(Message.reply)
    /\ Len(accepted) = 1
    /\ Len(published) = 1
    /\ pc = "next"
    /\ run_result = None

\* C16: an encoded response contains exactly one of the keys `result` and
\* `error`, the other being omitted (never written as null), and an absent id
\* is omitted too.
C16_EncodedResponseOmitsAbsentFields ==
    IsSome(serialized) =>
        /\ HasKey(serialized.v, "jsonrpc")
        /\ HasKey(serialized.v, "result") # HasKey(serialized.v, "error")
        /\ HasKey(serialized.v, "id") = IsSome(Resp.id)

\* build() returned the configuration error
IsConfigurationError(r) == IsErr(r) /\ r.err = <<"Transport is required">>
\* build() could not create the Tokio runtime, which it does before it looks
\* at the configuration
IsRuntimeError(r) == IsErr(r) /\ to_string(r.err) = "Failed to create Tokio runtime"

\* C17: a new builder has no transport, no tools, the name "mcp-server", the
\* version "0.1.0" and capabilities with tools only (prompts and resources
\* absent); every setter changes the one field it names and nothing else;
\* build() changes no field, and once the runtime exists it fails, with the
\* configuration error "Transport is required", if and only if no transport was
\* set, and otherwise returns the server. No server exists without a transport.
C17_BuildFailsIffNoTransport ==
    /\ transport = None /\ tools = <<>>
    /\ server_name = "mcp-server" /\ server_version = "0.1.0"
    /\ capabilities.tools = Some(JObj({}))
    /\ capabilities.prompts = None /\ capabilities.resources = None
    /\ [][/\ transport' # transport =>
                (IsBuilder /\ UNCHANGED <<tools, server_name, server_version,
                                          capabilities, build_result>>)
          /\ server_name' # server_name =>
                (IsBuilder /\ UNCHANGED <<transport, tools, server_version,
                                          capabilities, build_result>>)
          /\ server_version' # server_version =>
                (IsBuilder /\ UNCHANGED <<transport, tools, server_name,
                                          capabilities, build_result>>)
          /\ capabilities' # capabilities =>
                (IsBuilder /\ UNCHANGED <<transport, tools, server_name,
                                          server_version, build_result>>)
          /\ tools' # tools =>
                (IsBuilder /\ UNCHANGED <<transport, server_name, server_version,
                                          capabilities, build_result>>)]_vars
    /\ [][build_result' # build_result =>
            /\ IsBuilder
            /\ UNCHANGED server_vars
            /\ IsSome(build_result')
            /\ IsOk(build_result'.v) => IsSome(transport)
            /\ ~IsRuntimeError(build_result'.v) =>
                /\ IsConfigurationError(build_result'.v) <=> IsNone(transport)
                /\ IsOk(build_result'.v) <=> IsSome(transport)]_vars
    /\ [](IsServer => IsSome(transport))

\* C17 witness: only the name was set; build() failed with the configuration
\* error and version and capabilities are still the defaults.
C17_Witness ==
    /\ IsSome(build_result) /\ IsConfigurationError(build_result.v)
    /\ transport = None
    /\ server_name = "example-mcp"
    /\ server_version = "0.1.0"
    /\ capabilities = DefaultCapabilities

\* C17 witness (success): with a transport and nothing else set, build()
\* returned a server that bears the defaults.
C17_BuiltWitness ==
    /\ IsServer
    /\ IsSome(transport)
    /\ server_name = "mcp-server" /\ server_version = "0.1.0"
    /\ capabilities = DefaultCapabilities
    /\ tools = <<>>

\* The methods that have no error case
InfallibleMethods == {"initialize", "listTools", "listResources", "listPrompts"}
\* A capability is returned as configured: its metadata when present, nothing
\* but null when absent
ReturnedAsConfigured(caps, key, configured) ==
    IF IsSome(configured) THEN Get(caps, key) = Some(configured.v)
    ELSE Get(caps, key) \in {None, Some(JNull)}

\* C18: initialize, listTools, listResources and listPrompts never fail: for
\* any params (absent, null, a string, a number, an array, any object) the
\* response has a result and no error. The result of initialize carries the
\* configured name, version and capabilities, that of listResources an empty
\* resource list and a null cursor, that of listPrompts an empty prompt list.
C18_InfallibleMethodsNeverFail ==
    (Served /\ Req.method \in InfallibleMethods) =>
        /\ IsNone(Resp.error)
        /\ IsSome(Resp.result)
        /\ Resp.result.v.t = "obj"
        /\ Req.method = "initialize" =>
            /\ Get(Resp.result.v, "server_name") = Some(JStr(server_name))
            /\ Get(Resp.result.v, "server_version") = Some(JStr(server_version))
            /\ IsSome(Get(Resp.result.v, "capabilities"))
            /\ LET caps == Get(Resp.result.v, "capabilities").v
               IN  /\ ReturnedAsConfigured(caps, "tools", capabilities.tools)
                   /\ ReturnedAsConfigured(caps, "prompts", capabilities.prompts)
                   /\ ReturnedAsConfigured(caps, "resources", capabilities.resources)
        /\ Req.method = "listTools" => HasKey(Resp.result.v, "tools")
        /\ Req.method = "listResources" =>
            /\ Get(Resp.result.v, "resources") = Some(JArr(<<>>))
            /\ Get(Resp.result.v, "next_cursor") = Some(JNull)
        /\ Req.method = "listPrompts" =>
            Get(Resp.result.v, "prompts") = Some(JArr(<<>>))

\* C18 witness: initialize with a number for params was answered with the
\* configured identity of the example server.
C18_Witness ==
    /\ Served /\ Req.method = "initialize"
    /\ Req.params = Some(JNum(7))
    /\ server_name = "example-mcp"
    /\ IsNone(Resp.error)
    /\ Get(Resp.result.v, "server_name") = Some(JStr("example-mcp"))

\* C18 witness (stubs): listResources without params was answered.
C18_ListResourcesWitness ==
    /\ Served /\ Req.method = "listResources"
    /\ Req.params = None
    /\ IsSome(Resp.result)

\* A readResource request whose params hold no string `uri`
MissingUriRequest ==
    /\ Served
    /\ Req.method = "readResource"
    /\ IsNone(GetStr(ParamsOf(Req), "uri"))
\* A getPrompt request whose params lack `name` or `arguments`
MissingPromptParamsRequest ==
    /\ Served
    /\ Req.method = "getPrompt"
    /\ ~HasKey(ParamsOf(Req), "name") \/ ~HasKey(ParamsOf(Req), "arguments")
\* A readResource or getPrompt request that holds what the method requires
CompleteResourceOrPromptRequest ==
    /\ Served
    /\ \/ /\ Req.method = "readResource"
          /\ IsSome(GetStr(ParamsOf(Req), "uri"))
       \/ /\ Req.method = "getPrompt"
          /\ IsSome(GetStr(ParamsOf(Req), "name"))
          /\ HasKey(ParamsOf(Req), "arguments")

\* C19: readResource without a string `uri`, and getPrompt without `name` or
\* without `arguments`, are answered without result and with an error of kind
\* InvalidParams, which its code tells apart from MethodNotFound; with the
\* required parameters present both succeed with a result and no error.
C19_MissingResourceOrPromptParamsIsInvalidParams ==
    /\ (MissingUriRequest \/ MissingPromptParamsRequest) =>
        /\ IsNone(Resp.result)
        /\ IsSome(Resp.error)
        /\ Resp.error.v.code # MethodNotFoundCode
    /\ CompleteResourceOrPromptRequest =>
        /\ IsSome(Resp.result)
        /\ IsNone(Resp.error)

\* C20: serving requests never mutates the server: no step of either run loop
\* changes the registry, the name, the version, the capabilities or the
\* transport, so after any sequence of handled requests, failed ones included,
\* they are the values the server was built with; a request is answered the
\* same whatever was handled before it: listTools lists the one registered tool
\* and a callTool of it with arguments succeeds, at any place of the sequence.
C20_ServingNeverMutatesTheServer ==
    /\ [][UNCHANGED <<server_vars, build_result, registered>>]_vars
    /\ [](/\ tools = <<<<ExampleTool.name, ExampleTool>>>>
          /\ server_name = "example-mcp"
          /\ server_version = "0.1.0"
          /\ capabilities = ExampleCapabilities)
    /\ []((Served /\ Req.method = "listTools") =>
            /\ IsNone(Resp.error)
            /\ Listed = <<ToolDefinitionJson(ExampleTool)>>)
    /\ []((Served /\ Req.method = "callTool"
           /\ GetStr(ParamsOf(Req), "name") = Some(ExampleTool.name)
           /\ HasKey(ParamsOf(Req), "arguments")) =>
            /\ IsNone(Resp.error)
            /\ IsSome(Resp.result))

\* C20 witness: a callTool of the registered tool was answered and then a second
\* one is answered as well, the registry still holding the tool.
C20_Witness ==
    /\ IsStdio
    /\ Len(accepted) = 2
    /\ flushed = 2
    /\ ~IsErrorDoc(stdout[1])
    /\ Served /\ Req.method = "callTool"
    /\ HasKey(ParamsOf(Req), "arguments")
    /\ IsNone(Resp.error)
    /\ Keys(tools) = {ExampleTool.name}
    /\ pc = "send"

\* C21: a tool's call is invoked only by a callTool request whose `name` is a
\* string equal to that tool's registry key, and then exactly once, on the tool
\* registered under that key; a request of any other method (one that differs
\* from callTool in case included), a callTool without a string `name` and a
\* callTool naming an unregistered tool (one that differs from a registered
\* name in case included) invoke no tool at all.
C21_ToolInvokedOnlyByMatchingCallTool ==
    Served =>
        /\ Len(invoked) <= 1
        /\ invoked # <<>> =>
            /\ Req.method = "callTool"
            /\ IsSome(GetStr(ParamsOf(Req), "name"))
            /\ invoked[1].tool.name = GetStr(ParamsOf(Req), "name").v
            /\ \E i \in 1..Len(tools) :
                /\ tools[i][1] = GetStr(ParamsOf(Req), "name").v
                /\ tools[i][2] = invoked[1].tool
        /\ KnownToolRequest => Len(invoked) = 1
        /\ Req.method # "callTool" => invoked = <<>>
        /\ (Req.method = "callTool" /\ IsNone(GetStr(ParamsOf(Req), "name"))) =>
            invoked = <<>>
        /\ UnknownToolRequest => invoked = <<>>

\* C21 witness: with the tool echo registered, a callTool naming Echo invoked
\* no tool.
C21_Witness ==
    /\ UnknownToolRequest
    /\ GetStr(ParamsOf(Req), "name") = Some("Echo")
    /\ "echo" \in Keys(tools)
    /\ invoked = <<>>
    /\ IsSome(Resp.error)

\* C21 witness (match): with two tools registered, a callTool naming echo
\* invoked echo once and nothing else.
C21_MatchWitness ==
    /\ KnownToolRequest
    /\ GetStr(ParamsOf(Req), "name") = Some("echo")
    /\ Cardinality(Keys(tools)) = 2
    /\ Len(invoked) = 1
    /\ invoked[1].tool.name = "echo"

\* run() returned the error of a failed encode or publish
ReplyFailed ==
    /\ IsNats
    /\ IsSome(run_result) /\ IsErr(run_result.v)
    /\ to_string(run_result.v.err) \in {"serialize failed", "publish failed"}

\* C22: on the publish/subscribe transport a failure to encode or to publish a
\* reply is fatal: the encode step either yields the encoding or makes run()
\* return the error; the publish step of a message with a reply subject either
\* publishes or makes run() return the error with nothing published; run()
\* then has returned from within that message's turn and no step follows, so no
\* later message is taken or dispatched.
C22_EncodeOrPublishFailureIsFatal ==
    /\ [][(IsNats /\ pc = "encode") =>
            \/ /\ pc' = "publish" /\ run_result' = None /\ IsSome(serialized')
            \/ /\ pc' = "returned"
               /\ run_result' = Some(Err(<<"serialize failed">>))
               /\ UNCHANGED <<serve_vars, accepted, published, incoming>>]_vars
    /\ [][(IsNats /\ pc = "publish" /\ IsSome(reply)) =>
            \/ /\ pc' = "next" /\ run_result' = None
               /\ Len(published') = Len(published) + 1
            \/ /\ pc' = "returned"
               /\ run_result' = Some(Err(<<"publish failed">>))
               /\ UNCHANGED <<serve_vars, accepted, published, incoming>>]_vars
    /\ [](ReplyFailed =>
            /\ pc = "returned"
            /\ active = 1
            /\ IsSome(request) /\ IsSome(response)
            /\ IsSome(incoming) /\ IsSome(incoming.v)
            /\ Message.payload \in GoodPayloads)
    /\ [][ReplyFailed => UNCHANGED vars]_vars

\* C22 witness: the reply to the first message was published, the publish of
\* the reply to the second failed and run() returned that error.
C22_Witness ==
    /\ ReplyFailed
    /\ to_string(run_result.v.err) = "publish failed"
    /\ Len(accepted) = 2
    /\ Len(published) = 1
    /\ pc = "returned"

\* C22 witness (encode): the encoding of a response failed and run() returned
\* that error, nothing published.
C22_EncodeWitness ==
    /\ ReplyFailed
    /\ to_string(run_result.v.err) = "serialize failed"
    /\ published = <<>>
    /\ serialized = None

\* What is no end of input though it may look like one: a line holding only the
\* newline, a document cut short, a failed read
NearEndOfInput == {"blank", "truncated", "read_error"}

\* C23: on the line-stream transport orderly shutdown happens only on true end
\* of input: a blank line, a truncated document or a read failure makes the
\* receive step return an error from run(), never go to close(); the loop is at
\* close(), and run() has returned Ok(()), only when the last thing read was
\* the end of input.
C23_OnlyEndOfInputShutsDownOrderly ==
    /\ [][(IsStdio /\ pc = "receive" /\ IsSome(incoming')
           /\ incoming'.v.t \in NearEndOfInput) =>
            /\ pc' = "returned"
            /\ IsSome(run_result') /\ IsErr(run_result'.v)
            /\ to_string(run_result'.v.err) = "Failed to receive request"
            /\ ~contains_EOF(run_result'.v.err[2])]_vars
    /\ []((IsStdio /\ pc = "close") => incoming = Some(EndOfInput))
    /\ []((IsStdio /\ IsSome(run_result) /\ IsOk(run_result.v)) =>
            incoming = Some(EndOfInput))
    /\ []((IsStdio /\ IsSome(incoming) /\ incoming.v.t \in NearEndOfInput) =>
            (pc = "returned" /\ IsErr(run_result.v)))

\* C23 witness: after one answered request a blank line was read and run()
\* returned an error.
C23_Witness ==
    /\ IsStdio
    /\ incoming = Some([t |-> "blank"])
    /\ Len(accepted) = 1
    /\ flushed = 2
    /\ pc = "returned"
    /\ IsSome(run_result) /\ IsErr(run_result.v)

\* C23 witness (read failure): the first read failed and run() returned an
\* error.
C23_ReadFailureWitness ==
    /\ IsStdio
    /\ incoming = Some([t |-> "read_error"])
    /\ accepted = <<>>
    /\ IsSome(run_result) /\ IsErr(run_result.v)

\* The request served, with the empty object for params
WithEmptyParams == [Req EXCEPT !.params = Some(JObj({}))]
\* params is present and is no object: null, a string, a number or an array
NonObjectParams == IsSome(Req.params) /\ Req.params.v.t # "obj"

\* C24: a request without params is answered exactly as the same request with
\* params {}: the same response (same result or same error) and the same tool
\* invocations, for every method; params that are no object (null, string,
\* number, array) are answered too, as an object without members is, with
\* exactly one of result and error.
C24_OmittedParamsAreTheEmptyObject ==
    (Served /\ (Req.params = None \/ NonObjectParams)) =>
        /\ Resp = handle_request(WithEmptyParams).response
        /\ invoked = handle_request(WithEmptyParams).invoked
        /\ invoked = <<>>
        /\ IsSome(Resp.result) # IsSome(Resp.error)
        /\ Req.method \in InfallibleMethods => IsSome(Resp.result)
        /\ Req.method \notin InfallibleMethods => IsSome(Resp.error)

\* C24 witness: a callTool without params was answered with the error a
\* callTool with params {} gets.
C24_Witness ==
    /\ Served /\ Req.method = "callTool"
    /\ Req.params = None
    /\ IsSome(Resp.error)
    /\ Resp.error.v.message = "Missing 'name' in params"

\* C24 witness (non-object): a getPrompt whose params are an array was
\* answered with an error.
C24_NonObjectWitness ==
    /\ Served /\ Req.method = "getPrompt"
    /\ NonObjectParams /\ Req.params.v.t = "arr"
    /\ IsSome(Resp.error)

\* subscription.next() yielded None: the subscription has ended
EndOfSubscription == Some(None)

\* C25: the publish/subscribe run loop returns Ok(()) exactly when the
\* subscription ends: the poll that finds the end makes run() return Ok(()),
\* whatever was processed or skipped before; a poll that takes a message never
\* makes run() return; once subscribed, run() returns otherwise only with the
\* error of a failed encode or publish; and while the loop is polling or
\* serving, run() has not returned.
C25_NatsRunReturnsOkWhenSubscriptionEnds ==
    /\ [][(IsNats /\ pc = "next" /\ incoming' = EndOfSubscription) =>
            /\ pc' = "returned"
            /\ run_result' = Some(Ok("unit"))
            /\ UNCHANGED <<serve_vars, accepted, published>>]_vars
    /\ [][(IsNats /\ pc = "next" /\ incoming' # EndOfSubscription) =>
            /\ pc' \in {"next", "handle"}
            /\ run_result' = None]_vars
    /\ [][(IsNats /\ run_result' # run_result) =>
            \/ /\ pc = "next" /\ incoming' = EndOfSubscription
               /\ IsOk(run_result'.v)
            \/ /\ pc \in {"encode", "publish"}
               /\ IsErr(run_result'.v)
               /\ to_string(run_result'.v.err) \in {"serialize failed", "publish failed"}
            \/ /\ pc = "idle"
               /\ run_result' = Some(Err(<<"subscribe failed">>))]_vars
    /\ []((IsNats /\ IsSome(run_result) /\ IsOk(run_result.v)) =>
            (incoming = EndOfSubscription /\ pc = "returned" /\ active = 0))
    /\ []((IsNats /\ pc \in {"next", "handle", "encode", "publish"}) =>
            run_result = None)

\* C25 witness: after one answered message the subscription ended and run()
\* returned Ok(()).
C25_Witness ==
    /\ IsNats
    /\ incoming = EndOfSubscription
    /\ Len(accepted) = 1
    /\ Len(published) = 1
    /\ pc = "returned"
    /\ run_result = Some(Ok("unit"))

====
